---- MODULE Spec2Model ----
(***************************************************************************)
(* Model of gas-slack-notifier: the daily mention report                   *)
(* (reportYesterdayMentions, searchSlackMessages, aggregateMentions,       *)
(* postToSlack) and the trigger installer (setDailyMentionTrigger).        *)
(***************************************************************************)
EXTENDS Integers, Sequences, FiniteSets, TLC

VARIABLES
    props,          \* which script properties are set
    pc,             \* position of the reportYesterdayMentions invocation
    page,           \* searchSlackMessages: let page
    pageCount,      \* searchSlackMessages: let pageCount
    allMessages,    \* searchSlackMessages: let allMessages
    requests,       \* page numbers of the search requests issued, in order
    fetched,        \* match lists of the ok responses received, in order
    samePageCount,  \* every ok response so far reported the same page_count
    allOverCap,     \* every ok response so far reported page_count > MaxPages
    failedAt,       \* page number whose response had ok=false (0: none)
    failedError,    \* the error of that response
    firstPageCount, \* page_count of the first ok response (-1: none yet)
    thrown,         \* the exception that ended the invocation ("none": none)
    log,            \* Logger.log lines, as tags, in order
    posted,         \* text handed to postToSlack, in order
    input,          \* aggregation harness: the matches given
    output,         \* aggregation harness: the list returned
    apc,            \* aggregation harness: position
    triggers,       \* the project's installed triggers
    tpc,            \* position of each setDailyMentionTrigger execution
    snapshot,       \* triggers returned by getProjectTriggers, still to visit
    overlap,        \* the current/last run of the operator overlapped another
    lastDone,       \* operator whose run completed last (0: none)
    completed,      \* number of completed runs of each operator
    nextId,         \* id given to the next created trigger
    started,        \* number of setDailyMentionTrigger runs started
    atStart         \* the triggers installed before the first run

vars == <<props, pc, page, pageCount, allMessages, requests, fetched,
          samePageCount, allOverCap, failedAt, failedError, firstPageCount,
          thrown, log, posted,
          input, output, apc,
          triggers, tpc, snapshot, overlap, lastDone, completed, nextId,
          started, atStart>>

reportVars == <<props, pc, page, pageCount, allMessages, requests, fetched,
                samePageCount, allOverCap, failedAt, failedError,
                firstPageCount, thrown, log, posted>>
aggVars == <<input, output, apc>>
trigVars == <<triggers, tpc, snapshot, overlap, lastDone, completed, nextId,
              started, atStart>>

----------------------------------------------------------------------------
(* Values *)

Undefined == "undefined"

\* JavaScript truthiness of an optional string
Truthy(v) == v # Undefined /\ v # ""

\* a match as returned by search.messages: channel is Undefined or an object
\* with optional id and name; text is present or not
Match(ch, hasText) == [channel |-> ch, hasText |-> hasText]
Channel(id, name) == [present |-> TRUE, id |-> id, name |-> name]
NoChannelObject == [present |-> FALSE, id |-> Undefined, name |-> Undefined]

ChannelIds == {Undefined, "", "C1", "C2"}
ChannelNames == {Undefined, "", "a", "b"}

HasChannel(m) == m.channel.present

----------------------------------------------------------------------------
(* Bounds and program constants *)

MaxPages == 5           \* page cap of searchSlackMessages
MaxPageCount == 6       \* largest page_count a response reports
MaxMatches == 3         \* longest input given to aggregateMentions
MaxInstalls == 3        \* runs of setDailyMentionTrigger started in all

----------------------------------------------------------------------------
(* aggregateMentions *)

Placeholder(id) == "private-channel-" \o id

\* collation rank of a name under String.prototype.localeCompare
CollationKey(name) ==
    CASE name = "a" -> 1
      [] name = "b" -> 2
      [] name = "private-channel-C1" -> 3
      [] name = "private-channel-C2" -> 4
      [] OTHER -> 0

localeCompare(x, y) ==
    IF CollationKey(x) < CollationKey(y) THEN -1
    ELSE IF CollationKey(x) > CollationKey(y) THEN 1 ELSE 0

MapSetAppends(map, id, name) == Append(map, [id |-> id, name |-> name])

MapSetKeepsFirst(map, id, name) ==
    IF \E i \in 1..Len(map) : map[i].id = id THEN map
    ELSE Append(map, [id |-> id, name |-> name])

\* Map.prototype.set: an existing key keeps its position, a new key is added
\* at the end of the iteration order
MapSet(map, id, name) ==
    IF \E i \in 1..Len(map) : map[i].id = id
    THEN [i \in 1..Len(map) |->
            IF map[i].id = id THEN [id |-> id, name |-> name] ELSE map[i]]
    ELSE Append(map, [id |-> id, name |-> name])

\* the body of messages.forEach
Collect(map, msg) ==
    IF HasChannel(msg) /\ Truthy(msg.channel.id)
    THEN MapSet(map, msg.channel.id,
                IF Truthy(msg.channel.name) THEN msg.channel.name
                ELSE Placeholder(msg.channel.id))
    ELSE map

RECURSIVE ChannelMap(_)
ChannelMap(messages) ==
    IF messages = <<>> THEN <<>>
    ELSE Collect(ChannelMap(SubSeq(messages, 1, Len(messages) - 1)),
                 messages[Len(messages)])

\* insert e after every element that does not compare greater than it
InsertSorted(sorted, e) ==
    LET k == Cardinality({i \in 1..Len(sorted) :
                             localeCompare(sorted[i].name, e.name) <= 0})
    IN SubSeq(sorted, 1, k) \o <<e>> \o SubSeq(sorted, k + 1, Len(sorted))

SortByNameOmitted(list) == list

\* Array.prototype.sort with the name comparator (a stable sort)
RECURSIVE SortByName(_)
SortByName(list) ==
    IF list = <<>> THEN <<>>
    ELSE InsertSorted(SortByName(SubSeq(list, 1, Len(list) - 1)),
                      list[Len(list)])

aggregateMentions(messages) == SortByName(ChannelMap(messages))

----------------------------------------------------------------------------
(* reportYesterdayMentions *)

Good1 == Match(Channel("C1", "a"), TRUE)
NoId == Match(Channel(Undefined, Undefined), TRUE)
NoChannel == Match(NoChannelObject, TRUE)
NoText == Match(Channel("C1", "a"), FALSE)

\* match lists a search response can carry
PageBodies == {<<>>, <<Good1>>, <<NoId>>, <<Good1, NoId>>, <<NoId, NoChannel>>,
               <<NoChannel>>, <<NoText>>}
MaxBodyLen ==
    CHOOSE n \in 0..10 :
        /\ \E b \in PageBodies : Len(b) = n
        /\ \A b \in PageBodies : Len(b) <= n

ApiErrors == {"invalid_auth", "ratelimited"}
PostStatuses == {200, 403}

NotFoundText == [kind |-> "not_found"]
ReportText(count, channels) ==
    [kind |-> "report", count |-> count, channels |-> channels]

ReportInit ==
    /\ props \in [{"token", "userId", "webhook"} -> BOOLEAN]
    /\ pc = "start"
    /\ page = 0
    /\ pageCount = 0
    /\ allMessages = <<>>
    /\ requests = <<>>
    /\ fetched = <<>>
    /\ samePageCount = TRUE
    /\ allOverCap = TRUE
    /\ failedAt = 0
    /\ failedError = "none"
    /\ firstPageCount = -1
    /\ thrown = "none"
    /\ log = <<>>
    /\ posted = <<>>

\* reportYesterdayMentions up to the call of searchSlackMessages, and the
\* first statements of searchSlackMessages
Begin ==
    /\ pc = "start"
    /\ IF ~props["token"] \/ ~props["userId"] \/ ~props["webhook"]
       THEN /\ log' = Append(log, "config_missing")
            /\ pc' = "done"
            /\ UNCHANGED <<page, pageCount>>
       ELSE /\ log' = log \o <<"query", "search_start">>
            /\ pc' = "fetch"
            /\ page' = 1
            /\ pageCount' = 1
    /\ UNCHANGED <<props, allMessages, requests, fetched, samePageCount,
                   allOverCap, failedAt, failedError, firstPageCount, thrown,
                   posted>>

\* UrlFetchApp.fetch throws (DNS failure, timeout, ...)
FetchTransportFailure ==
    /\ pc = "fetch"
    /\ requests' = Append(requests, page)
    /\ thrown' = "transport"
    /\ pc' = "threw"
    /\ UNCHANGED <<props, page, pageCount, allMessages, fetched, samePageCount,
                   allOverCap, failedAt, failedError, firstPageCount, log,
                   posted>>

\* JSON.parse throws on a body that is not JSON
FetchInvalidJson ==
    /\ pc = "fetch"
    /\ requests' = Append(requests, page)
    /\ thrown' = "json"
    /\ pc' = "threw"
    /\ UNCHANGED <<props, page, pageCount, allMessages, fetched, samePageCount,
                   allOverCap, failedAt, failedError, firstPageCount, log,
                   posted>>

ErrorLinesAlwaysBoth(error) == <<"api_error", "invalid_token">>

\* the log lines written for a response with ok=false
ErrorLines(error) ==
    <<"api_error">>
        \o (IF error = "invalid_auth" THEN <<"invalid_token">> ELSE <<>>)

\* a response with ok=false: log and break
FetchNotOk ==
    /\ pc = "fetch"
    /\ \E error \in ApiErrors :
        /\ requests' = Append(requests, page)
        /\ failedAt' = page
        /\ failedError' = error
        /\ log' = log \o ErrorLines(error) \o <<"search_completed">>
        /\ pc' = "searched"
    /\ UNCHANGED <<props, page, pageCount, allMessages, fetched, samePageCount,
                   allOverCap, firstPageCount, thrown, posted>>

\* the sample log line dereferences matches[0].channel and matches[0].text
SampleThrows(matches) ==
    /\ matches # <<>>
    /\ ~HasChannel(matches[1]) \/ ~matches[1].hasText

NextPage(p) == p + 1

Continue(p, count) == p <= count

\* a response with ok=true
FetchOk ==
    /\ pc = "fetch"
    /\ \E count \in 0..MaxPageCount, matches \in PageBodies :
        LET head == (IF page = 1 THEN <<"total_hits">> ELSE <<>>)
                        \o <<"page_found">>
        IN
        /\ requests' = Append(requests, page)
        /\ fetched' = Append(fetched, matches)
        /\ firstPageCount' = IF firstPageCount = -1 THEN count
                             ELSE firstPageCount
        /\ samePageCount' = (samePageCount
                             /\ (firstPageCount = -1 \/ firstPageCount = count))
        /\ allOverCap' = (allOverCap /\ count > MaxPages)
        /\ IF SampleThrows(matches)
           THEN /\ log' = log \o head
                /\ thrown' = "type_error"
                /\ pc' = "threw"
                /\ UNCHANGED <<page, pageCount, allMessages>>
           ELSE /\ allMessages' = allMessages \o matches
                /\ pageCount' = count
                /\ page' = NextPage(page)
                /\ thrown' = thrown
                /\ IF page' > MaxPages
                   THEN /\ log' = log \o head
                                    \o (IF matches # <<>> THEN <<"sample">>
                                        ELSE <<>>)
                                    \o <<"page_limit", "search_completed">>
                        /\ pc' = "searched"
                   ELSE IF Continue(page', pageCount')
                   THEN /\ log' = log \o head
                                    \o (IF matches # <<>> THEN <<"sample">>
                                        ELSE <<>>)
                        /\ pc' = "fetch"
                   ELSE /\ log' = log \o head
                                    \o (IF matches # <<>> THEN <<"sample">>
                                        ELSE <<>>)
                                    \o <<"search_completed">>
                        /\ pc' = "searched"
    /\ UNCHANGED <<props, failedAt, failedError, posted>>

\* the caller's branch on the search result
IsNotFound(messages) == Len(messages) = 0

\* reportYesterdayMentions from the return of searchSlackMessages to the
\* call of postToSlack
Compose ==
    /\ pc = "searched"
    /\ IF IsNotFound(allMessages)
       THEN /\ log' = Append(log, "no_messages")
            /\ posted' = Append(posted, NotFoundText)
       ELSE /\ log' = log
            /\ posted' = Append(posted,
                   ReportText(Len(allMessages), aggregateMentions(allMessages)))
    /\ pc' = "post"
    /\ UNCHANGED <<props, page, pageCount, allMessages, requests, fetched,
                   samePageCount, allOverCap, failedAt, failedError,
                   firstPageCount, thrown>>

\* postToSlack: UrlFetchApp.fetch throws
PostTransportFailure ==
    /\ pc = "post"
    /\ thrown' = "post_transport"
    /\ pc' = "threw"
    /\ UNCHANGED <<props, page, pageCount, allMessages, requests, fetched,
                   samePageCount, allOverCap, failedAt, failedError,
                   firstPageCount, log, posted>>

\* postToSlack: a response arrives and is classified by its status code
PostResponse ==
    /\ pc = "post"
    /\ \E status \in PostStatuses :
        log' = Append(log, IF status = 200 THEN "post_ok" ELSE "post_failed")
    /\ pc' = "done"
    /\ UNCHANGED <<props, page, pageCount, allMessages, requests, fetched,
                   samePageCount, allOverCap, failedAt, failedError,
                   firstPageCount, thrown, posted>>

ReportIdle ==
    /\ props = [k \in {"token", "userId", "webhook"} |-> FALSE]
    /\ pc = "off"
    /\ page = 0
    /\ pageCount = 0
    /\ allMessages = <<>>
    /\ requests = <<>>
    /\ fetched = <<>>
    /\ samePageCount = TRUE
    /\ allOverCap = TRUE
    /\ failedAt = 0
    /\ failedError = "none"
    /\ firstPageCount = -1
    /\ thrown = "none"
    /\ log = <<>>
    /\ posted = <<>>

----------------------------------------------------------------------------
(* aggregateMentions applied to bounded inputs *)

AggMatches ==
    {NoChannel} \cup {Match(Channel(id, name), TRUE) :
                         id \in ChannelIds, name \in ChannelNames}

SeqsUpTo(S, n) == UNION {[1..k -> S] : k \in 0..n}

AggInit ==
    /\ input \in SeqsUpTo(AggMatches, MaxMatches)
    /\ output = <<>>
    /\ apc = "ready"

AggIdle ==
    /\ input = <<>>
    /\ output = <<>>
    /\ apc = "off"

Aggregate ==
    /\ apc = "ready"
    /\ output' = aggregateMentions(input)
    /\ apc' = "done"
    /\ UNCHANGED input

----------------------------------------------------------------------------
(* setDailyMentionTrigger *)

Target == "reportYesterdayMentions"
OtherHandler == "sendSlackNotification"

Operators == {1, 2}

Trigger(id, handler) == [id |-> id, handler |-> handler]

InstalledAtStart == {Trigger(1, Target), Trigger(2, Target),
                     Trigger(3, OtherHandler)}
FirstNewId == Cardinality(InstalledAtStart) + 1

Bound(ts) == {t \in ts : t.handler = Target}

TrigInit ==
    /\ triggers \in SUBSET InstalledAtStart
    /\ tpc = [p \in Operators |-> "idle"]
    /\ snapshot = [p \in Operators |-> {}]
    /\ overlap = [p \in Operators |-> FALSE]
    /\ lastDone = 0
    /\ completed = [p \in Operators |-> 0]
    /\ nextId = FirstNewId
    /\ started = 0
    /\ atStart = triggers

TrigIdle ==
    /\ triggers = {}
    /\ tpc = [p \in Operators |-> "off"]
    /\ snapshot = [p \in Operators |-> {}]
    /\ overlap = [p \in Operators |-> FALSE]
    /\ lastDone = 0
    /\ completed = [p \in Operators |-> 0]
    /\ nextId = FirstNewId
    /\ started = 0
    /\ atStart = {}

Running(p) == tpc[p] = "visit"

\* ScriptApp.getProjectTriggers()
Enumerate(p) ==
    /\ tpc[p] = "idle"
    /\ started < MaxInstalls
    /\ started' = started + 1
    /\ snapshot' = [snapshot EXCEPT ![p] = triggers]
    /\ tpc' = [tpc EXCEPT ![p] = "visit"]
    /\ overlap' = [q \in Operators |->
                     IF q = p THEN \E r \in Operators \ {p} : Running(r)
                     ELSE IF Running(q) THEN TRUE ELSE overlap[q]]
    /\ UNCHANGED <<triggers, lastDone, completed, nextId, atStart>>

IsBoundToSibling(t) == t.handler = OtherHandler

\* the forEach callback's test
IsBound(t) == t.handler = Target

AfterDeleteNothing(ts, t) == ts

\* ScriptApp.deleteTrigger(t)
AfterDelete(ts, t) == ts \ {t}

\* forEach callback on a trigger bound to another handler
Skip(p) ==
    /\ Running(p)
    /\ \E t \in snapshot[p] :
        /\ ~IsBound(t)
        /\ snapshot' = [snapshot EXCEPT ![p] = @ \ {t}]
    /\ UNCHANGED <<triggers, tpc, overlap, lastDone, completed, nextId,
                   started, atStart>>

\* forEach callback: ScriptApp.deleteTrigger(t) on an installed trigger
Delete(p) ==
    /\ Running(p)
    /\ \E t \in snapshot[p] :
        /\ IsBound(t)
        /\ t \in triggers
        /\ triggers' = AfterDelete(triggers, t)
        /\ snapshot' = [snapshot EXCEPT ![p] = @ \ {t}]
    /\ UNCHANGED <<tpc, overlap, lastDone, completed, nextId, started,
                   atStart>>

\* ScriptApp.deleteTrigger(t) on a trigger another run already deleted,
\* when the runtime ignores it
DeleteGoneIgnored(p) ==
    /\ Running(p)
    /\ \E t \in snapshot[p] :
        /\ IsBound(t)
        /\ t \notin triggers
        /\ snapshot' = [snapshot EXCEPT ![p] = @ \ {t}]
    /\ UNCHANGED <<triggers, tpc, overlap, lastDone, completed, nextId,
                   started, atStart>>

\* ScriptApp.deleteTrigger(t) on a trigger another run already deleted,
\* when the runtime throws: the run ends without creating a trigger
DeleteGoneThrows(p) ==
    /\ Running(p)
    /\ \E t \in snapshot[p] :
        /\ IsBound(t)
        /\ t \notin triggers
    /\ snapshot' = [snapshot EXCEPT ![p] = {}]
    /\ tpc' = [tpc EXCEPT ![p] = "idle"]
    /\ UNCHANGED <<triggers, overlap, lastDone, completed, nextId, started,
                   atStart>>

\* ScriptApp.newTrigger(...).create() and the return
Create(p) ==
    /\ Running(p)
    /\ snapshot[p] = {}
    /\ triggers' = triggers \cup {Trigger(nextId, Target)}
    /\ nextId' = nextId + 1
    /\ tpc' = [tpc EXCEPT ![p] = "idle"]
    /\ completed' = [completed EXCEPT ![p] = @ + 1]
    /\ lastDone' = p
    /\ UNCHANGED <<snapshot, overlap, started, atStart>>

----------------------------------------------------------------------------
(* Specifications *)

Init == ReportInit /\ AggIdle /\ TrigIdle

Next ==
    \/ Begin /\ UNCHANGED <<aggVars, trigVars>>
    \/ FetchTransportFailure /\ UNCHANGED <<aggVars, trigVars>>
    \/ FetchInvalidJson /\ UNCHANGED <<aggVars, trigVars>>
    \/ FetchNotOk /\ UNCHANGED <<aggVars, trigVars>>
    \/ FetchOk /\ UNCHANGED <<aggVars, trigVars>>
    \/ Compose /\ UNCHANGED <<aggVars, trigVars>>
    \/ PostTransportFailure /\ UNCHANGED <<aggVars, trigVars>>
    \/ PostResponse /\ UNCHANGED <<aggVars, trigVars>>

Spec == Init /\ [][Next]_vars

InitAgg == ReportIdle /\ AggInit /\ TrigIdle

NextAgg == Aggregate /\ UNCHANGED <<reportVars, trigVars>>

SpecAgg == InitAgg /\ [][NextAgg]_vars

InitTrig == ReportIdle /\ AggIdle /\ TrigInit

NextTrig ==
    \E p \in Operators :
        \/ Enumerate(p) /\ UNCHANGED <<reportVars, aggVars>>
        \/ Skip(p) /\ UNCHANGED <<reportVars, aggVars>>
        \/ Delete(p) /\ UNCHANGED <<reportVars, aggVars>>
        \/ DeleteGoneIgnored(p) /\ UNCHANGED <<reportVars, aggVars>>
        \/ DeleteGoneThrows(p) /\ UNCHANGED <<reportVars, aggVars>>
        \/ Create(p) /\ UNCHANGED <<reportVars, aggVars>>

SpecTrig == InitTrig /\ [][NextTrig]_vars

----------------------------------------------------------------------------
(* Properties of searchSlackMessages and reportYesterdayMentions (Spec) *)

RECURSIVE Flatten(_)
Flatten(lists) ==
    IF lists = <<>> THEN <<>>
    ELSE Flatten(SubSeq(lists, 1, Len(lists) - 1)) \o lists[Len(lists)]

UpTo(n) == [i \in 1..n |-> i]

Logged(tag) == \E i \in 1..Len(log) : log[i] = tag

SearchThrew == pc = "threw" /\ thrown \in {"transport", "json", "type_error"}

SearchReturned ==
    \/ pc \in {"searched", "post"}
    \/ pc = "done" /\ requests # <<>>
    \/ pc = "threw" /\ thrown = "post_transport"

SearchEnded == SearchReturned \/ SearchThrew

\* every request was answered by a response with ok=true
AllResponsesOk ==
    /\ requests # <<>>
    /\ Len(fetched) = Len(requests)

\* C1: when every response has ok=true and reports the same page_count P
\* with 1 <= P <= 5, searchSlackMessages issues exactly P requests, for
\* pages 1..P in that order, and returns the concatenation of the matches of
\* those pages in page order.
C1_PaginationFollowsPageCount ==
    (SearchEnded /\ AllResponsesOk /\ samePageCount
        /\ firstPageCount \in 1..MaxPages)
    => /\ SearchReturned
       /\ requests = UpTo(firstPageCount)
       /\ allMessages = Flatten(fetched)

\* C2: searchSlackMessages never issues more than 5 requests in one
\* invocation whatever the responses are; when all responses succeed and
\* report a page_count greater than 5 it issues exactly 5 requests, logs the
\* page-limit warning and returns at most 5 pages of matches.
C2_PageCap ==
    /\ Len(requests) <= MaxPages
    /\ (SearchEnded /\ AllResponsesOk /\ allOverCap)
       => /\ SearchReturned
          /\ Len(requests) = MaxPages
          /\ Logged("page_limit")
          /\ Len(allMessages) <= MaxPages * MaxBodyLen

\* C3: when the response for page k has ok=false, no further request is
\* issued and the function returns normally with exactly the matches of
\* pages 1..k-1 (none when k = 1); the generic error line is logged, and the
\* invalid-token line is logged exactly when the error is invalid_auth.
C3_AbortReturnsAccumulated ==
    failedAt # 0
    => /\ requests = UpTo(failedAt)
       /\ SearchReturned
       /\ Len(fetched) = failedAt - 1
       /\ allMessages = Flatten(fetched)
       /\ (failedAt = 1 => allMessages = <<>>)
       /\ Logged("api_error")
       /\ (Logged("invalid_token") <=> failedError = "invalid_auth")

C3_Witness ==
    /\ failedAt = 3
    /\ failedError = "invalid_auth"
    /\ allMessages = <<Good1, NoId>>
    /\ Logged("invalid_token")
    /\ pc = "done"

\* C8: no exception propagates out of reportYesterdayMentions, whatever the
\* search requests and the webhook post do.
C8_NoExceptionPropagates == pc # "threw"

\* C9: whenever reportYesterdayMentions posts and the aggregated channel
\* list is empty, the text posted is the short not-found message, not the
\* bulleted report.
C9_ShortMessageWhenNoChannels ==
    \A i \in 1..Len(posted) :
        aggregateMentions(allMessages) = <<>> => posted[i].kind = "not_found"

----------------------------------------------------------------------------
(* Properties of aggregateMentions (SpecAgg) *)

HasChannelId(m) == HasChannel(m) /\ Truthy(m.channel.id)

InputIds == {input[i].channel.id : i \in {j \in 1..Len(input) :
                                             HasChannelId(input[j])}}

OutputIds == {output[j].id : j \in 1..Len(output)}

\* C4: aggregateMentions returns exactly one entry per distinct channel id
\* occurring in a match that has a channel id: no id twice, none missing,
\* and nothing from matches without a channel or without a channel id.
C4_OneEntryPerChannelId ==
    apc = "done"
    => /\ OutputIds = InputIds
       /\ Len(output) = Cardinality(InputIds)

C4_Witness ==
    /\ apc = "done"
    /\ Len(input) = 3
    /\ input[1] = NoChannel
    /\ input[2].channel.id = "C1"
    /\ input[3].channel.id = "C1"
    /\ Len(output) = 1
    /\ output[1].id = "C1"

Ascending(list) ==
    \A i, j \in 1..Len(list) :
        i < j => localeCompare(list[i].name, list[j].name) <= 0

Permuted(seq) ==
    {[i \in 1..Len(seq) |-> seq[f[i]]] :
        f \in {g \in [1..Len(seq) -> 1..Len(seq)] :
                  \A i, j \in 1..Len(seq) : g[i] = g[j] => i = j}}

\* the name a match contributes for its channel
ResolvedName(m) ==
    IF Truthy(m.channel.name) THEN m.channel.name
    ELSE "private-channel-" \o m.channel.id

\* every channel id resolves to one name, and the names of distinct ids do
\* not compare equal
Unambiguous(seq) ==
    \A i, j \in 1..Len(seq) :
        (HasChannelId(seq[i]) /\ HasChannelId(seq[j]))
        => IF seq[i].channel.id = seq[j].channel.id
           THEN ResolvedName(seq[i]) = ResolvedName(seq[j])
           ELSE localeCompare(ResolvedName(seq[i]), ResolvedName(seq[j])) # 0

\* C5 (as stated): the output of aggregateMentions is ascending by name and
\* every permutation of the input yields the same output sequence.
C5_IndependentOfInputOrder ==
    apc = "done"
    => /\ Ascending(output)
       /\ \A perm \in Permuted(input) : aggregateMentions(perm) = output

\* C5 (amended): the output of aggregateMentions is ascending by name, and
\* every permutation of the input yields the same output sequence provided
\* every channel id resolves to a single name and the names of distinct
\* channel ids do not compare equal.
C5_IndependentWhenUnambiguous ==
    apc = "done"
    => /\ Ascending(output)
       /\ Unambiguous(input)
          => \A perm \in Permuted(input) : aggregateMentions(perm) = output

C5_Witness ==
    /\ apc = "done"
    /\ Unambiguous(input)
    /\ Len(input) = 3
    /\ input[1].channel = Channel("C2", "b")
    /\ input[2].channel = Channel("C1", "a")
    /\ input[3].channel = Channel("C2", "b")
    /\ output = <<[id |-> "C1", name |-> "a"], [id |-> "C2", name |-> "b"]>>

LastIndexOf(id) ==
    CHOOSE i \in 1..Len(input) :
        /\ HasChannelId(input[i])
        /\ input[i].channel.id = id
        /\ \A j \in (i + 1)..Len(input) :
              ~(HasChannelId(input[j]) /\ input[j].channel.id = id)

\* C6: the name of the entry for channel id X is that of the last match in
\* input order whose channel id is X: its channel name when it has one, the
\* placeholder private-channel-X otherwise; so no entry has an empty name.
C6_LastMatchNamesChannel ==
    apc = "done"
    => \A k \in 1..Len(output) :
          LET last == input[LastIndexOf(output[k].id)]
          IN /\ output[k].name =
                  (IF last.channel.name \in {Undefined, ""}
                   THEN "private-channel-" \o output[k].id
                   ELSE last.channel.name)
             /\ output[k].name \notin {Undefined, ""}

C6_Witness ==
    /\ apc = "done"
    /\ Len(input) = 2
    /\ input[1].channel = Channel("C1", "a")
    /\ input[2].channel = Channel("C1", Undefined)
    /\ output = <<[id |-> "C1", name |-> "private-channel-C1"]>>

----------------------------------------------------------------------------
(* Properties of setDailyMentionTrigger (SpecTrig) *)

BoundCount == Cardinality(Bound(triggers))

AllIdle == \A p \in Operators : tpc[p] = "idle"

\* C7: from any set of installed triggers, whenever a call of
\* setDailyMentionTrigger that overlapped no other call completes, exactly
\* one trigger bound to reportYesterdayMentions exists.
C7_ExactlyOneAfterInstall ==
    [][\A p \in Operators :
          (completed'[p] = completed[p] + 1 /\ ~overlap[p])
          => Cardinality(Bound(triggers')) = 1]_vars

C7_Witness ==
    /\ Cardinality(Bound(atStart)) = 2
    /\ AllIdle
    /\ completed[1] = 2
    /\ completed[2] = 0
    /\ lastDone = 1
    /\ ~overlap[1]
    /\ BoundCount = 1

\* C10: a final state with more than one trigger bound to
\* reportYesterdayMentions is reached only by a run that overlapped another
\* run; when no runs overlap it never happens.
C10_DuplicatesOnlyWhenOverlapping ==
    (AllIdle /\ lastDone # 0 /\ BoundCount > 1) => overlap[lastDone]

\* two interleaved runs both complete and leave two bound triggers
C10_Witness ==
    /\ atStart = {}
    /\ AllIdle
    /\ completed[1] = 1
    /\ completed[2] = 1
    /\ overlap[1]
    /\ overlap[2]
    /\ BoundCount = 2

====
